---------------------------- MODULE Spec2Model ----------------------------
(***************************************************************************)
(* Model of the word-search matching engine of src/src/word_search.py:     *)
(* the first-letter index, the adjacency scan, the direction matcher and    *)
(* the row-major scan of find_words.                                        *)
(*                                                                          *)
(* Data representation                                                      *)
(*   matrix   a sequence of rows, each a sequence of one-character strings  *)
(*            (the 2-dimensional numpy array of str)                        *)
(*   word     a sequence of one-character strings (a Python str)            *)
(*   Cell     [row, column], 0-based as in the code                        *)
(*   Letter   [char, cell]                                                  *)
(*   Word     [word, start, end]                                            *)
(*   dict     a function whose DOMAIN is the set of keys                    *)
(***************************************************************************)
EXTENDS Integers, Sequences, FiniteSets, TLC

VARIABLES
    word_search,    \* find_words: the matrix being searched
    words,          \* find_words: the input word list
    words_initial,  \* find_words: dict initial -> list of words still to find
    words_found,    \* find_words: list of Word records found so far
    row_index,      \* find_words: row of the cell the scan is about to visit
    column_index,   \* find_words: column of that cell
    pc,             \* "scan" | "done" | "raised" (find_words); "call" | "returned"
    scanned,        \* cells for which get_adjacent_cells/get_matched_words ran
    match_call,     \* one call of cells_match_to_word: arguments and result
    adjacent_call   \* one call of get_adjacent_cells: argument and result

vars == <<word_search, words, words_initial, words_found, row_index,
          column_index, pc, scanned, match_call, adjacent_call>>

---------------------------------------------------------------------------
(* Bounds of the model *)

\* Most cells of a grid given to find_words or cells_match_to_word
MaxCells == 4
\* Most letters of a word list, all its words together
MaxLetters == 4
\* Most cells of a grid given to get_adjacent_cells
AdjacentCells == 9
\* Most rows, most columns and longest word of a planted grid
PlantDim == 4

Alphabet == {"A", "B"}
Filler == "X"

---------------------------------------------------------------------------
(* Values *)

Cell(row, column) == [row |-> row, column |-> column]

Letter(char, cell) == [char |-> char, cell |-> cell]

Word(word, start, end) == [word |-> word, start |-> start, end |-> end]

\* matrix.shape
Rows(matrix) == Len(matrix)
Cols(matrix) == Len(matrix[1])

\* numpy accepts an index i on an axis of length n when -n <= i < n
AxisOk(i, n) == -n <= i /\ i < n

\* ... and reads position i mod n for it (a negative index counts from the end)
AxisPos(i, n) == (i % n) + 1

IndexOk(matrix, row, column) ==
    AxisOk(row, Rows(matrix)) /\ AxisOk(column, Cols(matrix))

\* matrix[row, column]; "IndexError" stands for the raised exception
MatrixGet(matrix, row, column) ==
    IF IndexOk(matrix, row, column)
    THEN matrix[AxisPos(row, Rows(matrix))][AxisPos(column, Cols(matrix))]
    ELSE "IndexError"

---------------------------------------------------------------------------
(* create_words_dictionary *)

create_words_dictionary(ws) ==
    [initial \in {ws[i][1] : i \in 1..Len(ws)} |->
        SelectSeq(ws, LAMBDA word : word[1] = initial)]

---------------------------------------------------------------------------
(* get_adjacent_cells *)

\* range(-1, 2) x range(-1, 2) in the order of the two nested loops
Deviations ==
    << <<-1, -1>>, <<-1, 0>>, <<-1, 1>>,
       << 0, -1>>, << 0, 0>>, << 0, 1>>,
       << 1, -1>>, << 1, 0>>, << 1, 1>> >>

\* The top edge is not excluded
StartRowUnguarded(matrix, position) == IF position.row >= 0 THEN -1 ELSE 0

StartRow(matrix, position) == IF position.row > 0 THEN -1 ELSE 0

EndRow(matrix, position) ==
    IF position.row < Rows(matrix) - 1 THEN 2 ELSE 1

StartColumn(matrix, position) == IF position.column > 0 THEN -1 ELSE 0

\* The right-hand neighbour is dropped one column too early
EndColumnShort(matrix, position) ==
    IF position.column < Cols(matrix) - 2 THEN 2 ELSE 1

EndColumn(matrix, position) ==
    IF position.column < Cols(matrix) - 1 THEN 2 ELSE 1

get_adjacent_cells(matrix, position) ==
    LET devs == SelectSeq(Deviations, LAMBDA d :
                    /\ StartRow(matrix, position) <= d[1]
                    /\ d[1] < EndRow(matrix, position)
                    /\ StartColumn(matrix, position) <= d[2]
                    /\ d[2] < EndColumn(matrix, position)
                    /\ ~(d[1] = 0 /\ d[2] = 0))
    IN  [i \in 1..Len(devs) |->
            LET current_row == position.row + devs[i][1]
                current_column == position.column + devs[i][2]
            IN  Letter(MatrixGet(matrix, current_row, current_column),
                       Cell(current_row, current_column))]

---------------------------------------------------------------------------
(* cells_match_to_word *)

\* current_position after k additions of direction
PositionAt(start, direction, k) ==
    Cell(start.row + k * direction[1], start.column + k * direction[2])

cells_match_to_word(matrix, word, start, direction) ==
    IF \E k \in 0..(Len(word) - 1) :
            ~IndexOk(matrix, PositionAt(start, direction, k).row,
                             PositionAt(start, direction, k).column)
    THEN FALSE   \* except IndexError
    ELSE word = [i \in 1..Len(word) |->
                    MatrixGet(matrix, PositionAt(start, direction, i - 1).row,
                                      PositionAt(start, direction, i - 1).column)]

---------------------------------------------------------------------------
(* get_matched_words *)

\* The two loops nested the other way round: words outside, letters inside
LoopPairsSwapped(letters, ws) ==
    [p \in 1..(Len(letters) * Len(ws)) |->
        [letter |-> letters[((p - 1) % Len(letters)) + 1],
         word   |-> ws[((p - 1) \div Len(letters)) + 1]]]

\* The (letter, word) pairs in the order the nested loops visit them
LoopPairs(letters, ws) ==
    [p \in 1..(Len(letters) * Len(ws)) |->
        [letter |-> letters[((p - 1) \div Len(ws)) + 1],
         word   |-> ws[((p - 1) % Len(ws)) + 1]]]

RowStep(start_point, pair) == pair.letter.cell.row - start_point.row
ColumnStep(start_point, pair) == pair.letter.cell.column - start_point.column

\* word[char_to_match] raises IndexError for a word of one character; the
\* first pass of the inner loop reaches every word of the list
get_matched_words_raises(letters, ws) ==
    Len(letters) > 0 /\ \E i \in 1..Len(ws) : Len(ws[i]) < 2

get_matched_words(matrix, start_point, letters, ws) ==
    LET hits == SelectSeq(LoopPairs(letters, ws), LAMBDA pair :
                    /\ pair.letter.char = pair.word[2]
                    /\ cells_match_to_word(matrix, pair.word, start_point,
                            << RowStep(start_point, pair),
                               ColumnStep(start_point, pair) >>))
    IN  [i \in 1..Len(hits) |->
            Word(hits[i].word, start_point,
                 Cell(start_point.row
                        + RowStep(start_point, hits[i]) * (Len(hits[i].word) - 1),
                      start_point.column
                        + ColumnStep(start_point, hits[i]) * (Len(hits[i].word) - 1)))]

---------------------------------------------------------------------------
(* filter_words *)

Contains(list, x) == \E i \in 1..Len(list) : list[i] = x

\* list.remove(x): drops the first occurrence
ListRemove(list, x) ==
    LET first == CHOOSE i \in 1..Len(list) :
                    list[i] = x /\ \A j \in 1..(i - 1) : list[j] # x
    IN  SubSeq(list, 1, first - 1) \o SubSeq(list, first + 1, Len(list))

\* [raised, list]: raised when list.remove finds no occurrence (ValueError)
RECURSIVE filter_words(_, _)
filter_words(filter_from, words_to_filter) ==
    IF words_to_filter = << >>
    THEN [raised |-> FALSE, list |-> filter_from]
    ELSE IF ~Contains(filter_from, Head(words_to_filter))
         THEN [raised |-> TRUE, list |-> filter_from]
         ELSE filter_words(ListRemove(filter_from, Head(words_to_filter)),
                           Tail(words_to_filter))

---------------------------------------------------------------------------
(* find_words *)

\* The early-exit test left out: the scan never sees an empty index
IsEmptyNever(dict) == FALSE /\ DOMAIN dict = {}

\* not dict
IsEmpty(dict) == DOMAIN dict = {}

\* The bucket is rebound to the filtered list but a drained bucket is kept
PruneKeepsKey(dict, letter, remaining) ==
    [key \in DOMAIN dict |-> IF key = letter THEN remaining ELSE dict[key]]

\* filter_words mutates dict[letter] in place to `remaining`;
\* `if not words_to_match: del words_initial[letter]`
Prune(dict, letter, remaining) ==
    IF remaining = << >>
    THEN [key \in DOMAIN dict \ {letter} |-> dict[key]]
    ELSE [key \in DOMAIN dict |-> IF key = letter THEN remaining ELSE dict[key]]

\* The cell the two nested enumerate loops visit after (row, column);
\* row = Rows(matrix) once both loops are exhausted
NextRow(matrix, row, column) ==
    IF column + 1 < Cols(matrix) THEN row ELSE row + 1

NextColumn(matrix, row, column) ==
    IF column + 1 < Cols(matrix) THEN column + 1 ELSE 0

CurrentLetter == word_search[row_index + 1][column_index + 1]

InLoop == pc = "scan" /\ row_index < Rows(word_search)

Advance ==
    /\ row_index' = NextRow(word_search, row_index, column_index)
    /\ column_index' = NextColumn(word_search, row_index, column_index)

\* `if not words_initial: return words_found`
EarlyReturn ==
    /\ InLoop
    /\ IsEmpty(words_initial)
    /\ pc' = "done"
    /\ UNCHANGED <<word_search, words, words_initial, words_found, row_index,
                   column_index, scanned, match_call, adjacent_call>>

\* `if letter not in words_initial: continue`
SkipCell ==
    /\ InLoop
    /\ ~IsEmpty(words_initial)
    /\ CurrentLetter \notin DOMAIN words_initial
    /\ Advance
    /\ UNCHANGED <<word_search, words, words_initial, words_found, pc,
                   scanned, match_call, adjacent_call>>

\* The rest of the loop body for a cell whose letter is a key of the index
ScanCell ==
    /\ InLoop
    /\ ~IsEmpty(words_initial)
    /\ CurrentLetter \in DOMAIN words_initial
    /\ LET letter == CurrentLetter
           words_to_match == words_initial[letter]
           start_point == Cell(row_index, column_index)
           adjacent_letters == get_adjacent_cells(word_search, start_point)
       IN  /\ scanned' = Append(scanned, start_point)
           /\ IF get_matched_words_raises(adjacent_letters, words_to_match)
              THEN \* IndexError out of get_matched_words
                   /\ pc' = "raised"
                   /\ UNCHANGED <<words_initial, words_found, row_index,
                                  column_index>>
              ELSE LET words_matched == get_matched_words(word_search,
                            start_point, adjacent_letters, words_to_match)
                       words_to_filter == [i \in 1..Len(words_matched) |->
                                              words_matched[i].word]
                       filtered == filter_words(words_to_match, words_to_filter)
                   IN  IF words_matched = << >>
                       THEN /\ Advance
                            /\ UNCHANGED <<words_initial, words_found, pc>>
                       ELSE /\ words_found' = words_found \o words_matched
                            /\ IF filtered.raised
                               THEN \* ValueError out of filter_words
                                    /\ pc' = "raised"
                                    /\ words_initial' =
                                         [words_initial EXCEPT ![letter] = filtered.list]
                                    /\ UNCHANGED <<row_index, column_index>>
                               ELSE /\ words_initial' =
                                         Prune(words_initial, letter, filtered.list)
                                    /\ Advance
                                    /\ UNCHANGED pc
    /\ UNCHANGED <<word_search, words, match_call, adjacent_call>>

\* Both loops exhausted: the final `return words_found`
Return ==
    /\ pc = "scan"
    /\ row_index = Rows(word_search)
    /\ pc' = "done"
    /\ UNCHANGED <<word_search, words, words_initial, words_found, row_index,
                   column_index, scanned, match_call, adjacent_call>>

Next == EarlyReturn \/ SkipCell \/ ScanCell \/ Return

---------------------------------------------------------------------------
(* Inputs *)

GridsOf(rows, cols, chars) == [1..rows -> [1..cols -> chars]]

\* Every rectangular grid of at most `cells` cells
GridsWithin(cells) ==
    UNION {GridsOf(shape[1], shape[2], Alphabet) :
            shape \in {sh \in (1..cells) \X (1..cells) : sh[1] * sh[2] <= cells}}

Grids == GridsWithin(MaxCells)

WordsOfLen(lo, hi) == UNION {[1..n -> Alphabet] : n \in lo..hi}

\* Every list of non-empty words with at most `budget` letters in all
RECURSIVE ListsWithin(_)
ListsWithin(budget) ==
    {<< >>} \cup
    UNION {UNION {{<< word >> \o rest : rest \in ListsWithin(budget - n)} :
                    word \in [1..n -> Alphabet]} :
            n \in 1..budget}

WordLists == ListsWithin(MaxLetters)

CellsOf(matrix) ==
    {Cell(r, c) : r \in 0..(Rows(matrix) - 1), c \in 0..(Cols(matrix) - 1)}

Directions == {<<dr, dc>> : dr \in {-1, 0, 1}, dc \in {-1, 0, 1}} \ {<<0, 0>>}

NoCall == [fn |-> "none"]

\* The state of find_words(matrix, ws) before the first cell
FindWordsEntry(matrix, ws) ==
    /\ word_search = matrix
    /\ words = ws
    /\ words_initial = create_words_dictionary(ws)
    /\ words_found = << >>
    /\ row_index = 0
    /\ column_index = 0
    /\ pc = "scan"
    /\ scanned = << >>
    /\ match_call = NoCall
    /\ adjacent_call = NoCall

Init == \E matrix \in Grids, ws \in WordLists : FindWordsEntry(matrix, ws)

Spec == Init /\ [][Next]_vars

---------------------------------------------------------------------------
(* One call of cells_match_to_word on drawn arguments *)

InitMatch ==
    \E matrix \in Grids, word \in WordsOfLen(1, MaxLetters),
       direction \in Directions :
        \E start \in CellsOf(matrix) :
            /\ word_search = matrix
            /\ match_call = [fn |-> "cells_match_to_word", word |-> word,
                             start |-> start, direction |-> direction,
                             result |-> FALSE]
            /\ pc = "call"
            /\ words = << >>
            /\ words_initial = create_words_dictionary(<< >>)
            /\ words_found = << >>
            /\ row_index = 0
            /\ column_index = 0
            /\ scanned = << >>
            /\ adjacent_call = NoCall

CallCellsMatchToWord ==
    /\ pc = "call"
    /\ match_call.fn = "cells_match_to_word"
    /\ match_call' = [match_call EXCEPT !.result =
            cells_match_to_word(word_search, match_call.word,
                                match_call.start, match_call.direction)]
    /\ pc' = "returned"
    /\ UNCHANGED <<word_search, words, words_initial, words_found, row_index,
                   column_index, scanned, adjacent_call>>

SpecMatch == InitMatch /\ [][CallCellsMatchToWord]_vars

---------------------------------------------------------------------------
(* One call of get_adjacent_cells on drawn arguments *)

AdjacentGrids == GridsWithin(AdjacentCells)

InitAdjacent ==
    \E matrix \in AdjacentGrids :
        \E position \in CellsOf(matrix) :
            /\ word_search = matrix
            /\ adjacent_call = [fn |-> "get_adjacent_cells",
                                position |-> position, result |-> << >>]
            /\ pc = "call"
            /\ words = << >>
            /\ words_initial = create_words_dictionary(<< >>)
            /\ words_found = << >>
            /\ row_index = 0
            /\ column_index = 0
            /\ scanned = << >>
            /\ match_call = NoCall

CallGetAdjacentCells ==
    /\ pc = "call"
    /\ adjacent_call.fn = "get_adjacent_cells"
    /\ adjacent_call' = [adjacent_call EXCEPT !.result =
            get_adjacent_cells(word_search, adjacent_call.position)]
    /\ pc' = "returned"
    /\ UNCHANGED <<word_search, words, words_initial, words_found, row_index,
                   column_index, scanned, match_call>>

SpecAdjacent == InitAdjacent /\ [][CallGetAdjacentCells]_vars

---------------------------------------------------------------------------
(* find_words on a grid of filler into which one word has been written *)

InGrid(matrix, cell) ==
    /\ 0 <= cell.row /\ cell.row < Rows(matrix)
    /\ 0 <= cell.column /\ cell.column < Cols(matrix)

CharAt(matrix, cell) == matrix[cell.row + 1][cell.column + 1]

Fits(rows, cols, word, start, direction) ==
    \A k \in 0..(Len(word) - 1) :
        /\ 0 <= PositionAt(start, direction, k).row
        /\ PositionAt(start, direction, k).row < rows
        /\ 0 <= PositionAt(start, direction, k).column
        /\ PositionAt(start, direction, k).column < cols

Plant(rows, cols, word, start, direction) ==
    [r \in 1..rows |-> [c \in 1..cols |->
        IF \E k \in 0..(Len(word) - 1) :
                PositionAt(start, direction, k) = Cell(r - 1, c - 1)
        THEN word[1 + CHOOSE k \in 0..(Len(word) - 1) :
                    PositionAt(start, direction, k) = Cell(r - 1, c - 1)]
        ELSE Filler]]

InitPlant ==
    \E rows \in 1..PlantDim, cols \in 1..PlantDim,
       word \in WordsOfLen(2, PlantDim), direction \in Directions :
        \E start \in {Cell(r, c) : r \in 0..(rows - 1), c \in 0..(cols - 1)} :
            /\ Fits(rows, cols, word, start, direction)
            /\ FindWordsEntry(Plant(rows, cols, word, start, direction),
                              << word >>)

SpecPlant == InitPlant /\ [][Next]_vars

---------------------------------------------------------------------------
(* Vocabulary of the properties, stated on the grid itself *)

\* word is written in the grid from start along direction, every cell in bounds
Spells(matrix, word, start, direction) ==
    \A k \in 0..(Len(word) - 1) :
        /\ InGrid(matrix, PositionAt(start, direction, k))
        /\ CharAt(matrix, PositionAt(start, direction, k)) = word[k + 1]

Placements(matrix, word) ==
    {pl \in CellsOf(matrix) \X Directions : Spells(matrix, word, pl[1], pl[2])}

CellsCovered(word, pl) ==
    {PositionAt(pl[1], pl[2], k) : k \in 0..(Len(word) - 1)}

Reversed(word) == [i \in 1..Len(word) |-> word[Len(word) + 1 - i]]

Sgn(x) == IF x > 0 THEN 1 ELSE IF x < 0 THEN -1 ELSE 0

Abs(x) == IF x < 0 THEN -x ELSE x

\* The unit step from a record's start to its end
DirectionOf(rec) ==
    << Sgn(rec.end.row - rec.start.row), Sgn(rec.end.column - rec.start.column) >>

\* Position of a deviation in the order (row delta, then column delta)
OffsetRank(d) == (d[1] + 1) * 3 + (d[2] + 1)

\* Position of a cell in the row-major scan
ScanRank(matrix, cell) == cell.row * Cols(matrix) + cell.column

RecordsOf(word) == {i \in 1..Len(words_found) : words_found[i].word = word}

RECURSIVE Instances(_, _)
Instances(dict, keys) ==
    IF keys = {} THEN 0
    ELSE LET key == CHOOSE k \in keys : TRUE
         IN  Len(dict[key]) + Instances(dict, keys \ {key})

\* Number of word instances still in the index
Remaining(dict) == Instances(dict, DOMAIN dict)

---------------------------------------------------------------------------
(* C1: cells_match_to_word returns true only if every one of the len(word) *)
(* cells start + k*direction lies inside [0, rows) x [0, cols); it never    *)
(* accepts a character read at a wrapped (negative) index.                 *)
C1_NoMatchOutsideGrid ==
    (pc = "returned" /\ match_call.result) =>
        \A k \in 0..(Len(match_call.word) - 1) :
            InGrid(word_search,
                   PositionAt(match_call.start, match_call.direction, k))

(* C2: every record find_words returns has start and end inside the grid,   *)
(* end = start + direction * (len(word) - 1) for one of the 8 directions,   *)
(* and the grid spells the word along that line.                           *)
C2_RecordsLieInGrid ==
    pc = "done" =>
        \A i \in 1..Len(words_found) :
            LET rec == words_found[i]
            IN  /\ InGrid(word_search, rec.start)
                /\ InGrid(word_search, rec.end)
                /\ \E d \in Directions :
                    /\ rec.end = PositionAt(rec.start, d, Len(rec.word) - 1)
                    /\ Spells(word_search, rec.word, rec.start, d)

(* C3: round trip. When the grid is filler plus one word of the list        *)
(* written from a start cell along a direction, find_words returns a record *)
(* of that word with the planted start and end. Stated for words that read  *)
(* differently backwards: a palindrome written backwards gives the very     *)
(* grid of the palindrome written forwards from the other end.              *)
C3_RoundTrip ==
    pc # "scan" =>
        \A start \in CellsOf(word_search), d \in Directions :
            LET word == words[1]
            IN  ( /\ word # Reversed(word)
                  /\ Fits(Rows(word_search), Cols(word_search), word, start, d)
                  /\ word_search = Plant(Rows(word_search), Cols(word_search),
                                         word, start, d) )
                => /\ pc = "done"
                   /\ \E i \in 1..Len(words_found) :
                        words_found[i] =
                            Word(word, start, PositionAt(start, d, Len(word) - 1))

(* C4: find_words never raises on a rectangular grid and a list of          *)
(* non-empty words.                                                        *)
C4_NeverRaises == pc # "raised"

(* C5: with the same word twice in the list, a word placed exactly once     *)
(* gets exactly one record and leaves one instance in the index; a word     *)
(* placed exactly twice, on disjoint cells, gets both placements reported   *)
(* and leaves the index empty.                                              *)
C5_DuplicateConsumption ==
    ( /\ pc = "done"
      /\ Len(words) = 2
      /\ words[1] = words[2]
      /\ Len(words[1]) >= 2 )
    => LET word == words[1]
           places == Placements(word_search, word)
       IN  /\ Cardinality(places) = 1 =>
                /\ Cardinality(RecordsOf(word)) = 1
                /\ Remaining(words_initial) = 1
           /\ ( /\ Cardinality(places) = 2
                /\ \A p \in places, q \in places :
                     p # q => CellsCovered(word, p) \cap CellsCovered(word, q) = {} )
              => /\ \A pl \in places : \E i \in RecordsOf(word) :
                        /\ words_found[i].start = pl[1]
                        /\ words_found[i].end =
                              PositionAt(pl[1], pl[2], Len(word) - 1)
                 /\ Remaining(words_initial) = 0

(* C6: early termination. Once no word instance is left in the index, the   *)
(* only step find_words takes is the return: no further cell is scanned    *)
(* (no neighbour enumeration, no matcher call), no record is added and the  *)
(* scan position does not move.                                             *)
C6_EarlyTermination ==
    [][ (pc = "scan" /\ Remaining(words_initial) = 0)
        => /\ pc' = "done"
           /\ scanned' = scanned
           /\ words_found' = words_found
           /\ row_index' = row_index
           /\ column_index' = column_index ]_vars

C6_Witness ==
    /\ pc = "done"
    /\ words_found # << >>
    /\ Remaining(words_initial) = 0
    /\ ScanRank(word_search, Cell(row_index, column_index))
         < Rows(word_search) * Cols(word_search) - 1

\* What every Letter of a result must be, and the order of the result
AdjacentWellFormed(matrix, position, result) ==
    /\ \A i \in 1..Len(result) :
        /\ InGrid(matrix, result[i].cell)
        /\ result[i].char = CharAt(matrix, result[i].cell)
        /\ LET dr == Abs(result[i].cell.row - position.row)
               dc == Abs(result[i].cell.column - position.column)
           IN  (IF dr > dc THEN dr ELSE dc) = 1
    /\ \A i \in 1..Len(result), j \in 1..Len(result) :
        i < j =>
            OffsetRank(<< result[i].cell.row - position.row,
                          result[i].cell.column - position.column >>)
            < OffsetRank(<< result[j].cell.row - position.row,
                            result[j].cell.column - position.column >>)

(* C7: get_adjacent_cells returns between 3 and 8 Letters, each the        *)
(* character and coordinate of a distinct in-bounds cell at Chebyshev      *)
(* distance 1, in strictly increasing offset order.                        *)
C7_ThreeToEight ==
    pc = "returned" =>
        /\ 3 <= Len(adjacent_call.result)
        /\ Len(adjacent_call.result) <= 8
        /\ AdjacentWellFormed(word_search, adjacent_call.position,
                              adjacent_call.result)

(* C7 amended: get_adjacent_cells returns at most 8 Letters, and at least 3 *)
(* when the grid has two or more rows and two or more columns (a grid of    *)
(* one row or one column has cells with 0, 1 or 2 neighbours); each is the  *)
(* character and coordinate of a distinct in-bounds cell at Chebyshev       *)
(* distance 1, in strictly increasing offset order.                         *)
C7_NeighboursInGrid ==
    pc = "returned" =>
        /\ Len(adjacent_call.result) <= 8
        /\ (Rows(word_search) >= 2 /\ Cols(word_search) >= 2)
              => 3 <= Len(adjacent_call.result)
        /\ AdjacentWellFormed(word_search, adjacent_call.position,
                              adjacent_call.result)

C7_Witness ==
    /\ pc = "returned"
    /\ Len(adjacent_call.result) = 8
    /\ adjacent_call.position = Cell(1, 1)

C9_IndexInvariant ==
    pc = "scan" =>
        /\ \A key \in DOMAIN words_initial :
            /\ words_initial[key] # << >>
            /\ \A i \in 1..Len(words_initial[key]) :
                  words_initial[key][i][1] = key
        /\ (DOMAIN words_initial = {}) <=> (Len(words_found) = Len(words))

C9_Witness ==
    /\ pc = "scan"
    /\ words_found # << >>
    /\ DOMAIN words_initial # {}
    /\ DOMAIN words_initial # DOMAIN create_words_dictionary(words)

(* C10: completeness. When find_words returns, every word of the list of    *)
(* length >= 2 that the grid spells along one of the 8 directions, all      *)
(* cells in bounds, has a record in the output.                             *)
C10_Completeness ==
    pc = "done" =>
        \A i \in 1..Len(words) :
            (Len(words[i]) >= 2 /\ Placements(word_search, words[i]) # {})
            => RecordsOf(words[i]) # {}

C10_Witness ==
    /\ pc = "done"
    /\ Len(words) = 2
    /\ words[1] # words[2]
    /\ \A i \in 1..2 : Placements(word_search, words[i]) # {}
    /\ Len(words_found) = 2
    /\ words_found[1].start # words_found[2].start
    /\ row_index < Rows(word_search)

=============================================================================
